---- MODULE Spec2Model ----
(***************************************************************************)
(* A model of WebcamClassifier (src/webfront_v5/WebcamClassifier.js): the  *)
(* online k-NN classifier driven by requestAnimationFrame ticks.           *)
(*                                                                         *)
(* Conventions.                                                            *)
(*  - A matrix is the sequence of its rows; a row is a logits vector (a    *)
(*    tuple of integers).  No zero-row matrix is ever created by the code, *)
(*    so the JavaScript value null of a matrix field is the empty          *)
(*    sequence, written NULL.                                              *)
(*  - requestAnimationFrame handles are positive integers; the value null  *)
(*    of this.timer is 0, which is falsy exactly as null is in the tests   *)
(*    "if (this.timer)".                                                   *)
(*  - this.current is a class index, NoClass (null) or Undefined.          *)
(*  - A handler that throws ends where the exception is raised: the        *)
(*    assignments before that point are kept, the ones after it are not    *)
(*    made, and raised records it.                                         *)
(*  - The variables raised, dispatched, sampleCalls, confCalls, cleared,    *)
(*    paused, measured and scenario observe the program (what the last     *)
(*    handler did and which callbacks it invoked); no handler reads them.  *)
(***************************************************************************)
EXTENDS Integers, Sequences, FiniteSets, Bags, TLC

\* ---------------------------------------------------------------- constants
TOPK == 10
CLASS_COUNT == 3
MEASURE_TIMING_EVERY_NUM_FRAMES == 20
SQUASH == 300
InitialFrameTimeMs == 1000

\* ------------------------------------------------------------------- bounds
\* Number of distinct scenes the camera shows (also the logits dimension,
\* standing for INPUT_SIZE).
NumFrames == 2
\* Cap on the total number of stored examples.
MaxExamples == 3
\* Cap on the outstanding continuations (pending frames plus completions).
MaxChains == 1
\* The same cap where focus() and ready() may start further loops, and the
\* example cap there.
MaxLoops == 2
MaxFocus == 1
\* Cap on the camera requests ready() makes.
MaxReady == 1
\* Cap on the classification cycles started per value of the timing counter.
MaxCycles == 2
\* Example cap and cycle cap of the specifications with a still camera.
MaxStill == 11
MaxStillCycles == 1
\* Cap on the camera requests where several ready() calls are studied.
MaxRequests == 2
\* Example cap of the small specification with deleteClassData.
MaxFew == 2

Classes == 0 .. (CLASS_COUNT - 1)
NULL == << >>
NoClass == -1
Undefined == -2
\* An id that is not a configured class name.
BadId == CLASS_COUNT

\* ------------------------------------------------------------ pure helpers
Min(a, b) == IF a < b THEN a ELSE b

RECURSIVE SumTo(_, _)
\* f[0] + ... + f[n - 1]
SumTo(f, n) == IF n = 0 THEN 0 ELSE SumTo(f, n - 1) + f[n - 1]

RECURSIVE SeqSum(_)
SeqSum(s) == IF s = << >> THEN 0 ELSE Head(s) + SeqSum(Tail(s))

\* The integer square root.
ISqrt(n) == CHOOSE r \in 0 .. n : r * r <= n /\ (r + 1) * (r + 1) > n

\* Raw logits the network produces: scene k at gain m.
RawLogits(k, m) == [i \in 1 .. NumFrames |-> IF i = k THEN SQUASH * m ELSE 0]

\* Dot product of two logits vectors.
Dot(u, v) == SeqSum([i \in 1 .. Len(u) |-> u[i] * v[i]])

\* captureFrameSqueezeNetLogits: squash, then normalise to unit length.
captureFrameSqueezeNetLogits(raw) ==
    LET squashed == [i \in 1 .. Len(raw) |-> raw[i] \div SQUASH]
        sqrtSum  == ISqrt(Dot(squashed, squashed))
    IN  [i \in 1 .. Len(raw) |-> squashed[i] \div sqrtSum]

\* The magnitudes the raw logits of a scene come in.
Gains == {1, 2}

\* The frames of a camera showing n different scenes.
Scenes(n) == { RawLogits(k, m) : k \in 1 .. n, m \in Gains }

\* concat(ndarray1, ndarray2): null is the unit of concatenation.
concat(ndarray1, ndarray2) ==
    IF ndarray1 = NULL THEN ndarray2
    ELSE IF ndarray2 = NULL THEN ndarray1
    ELSE ndarray1 \o ndarray2

\* -------------------------------------------------------------------- state
VARIABLES
    isSafari, isMobile, mediaDevices,   \* the platform (browserUtils, navigator)
    watch,      \* which of the histories cleared, paused and measured are kept
    loaded, active, wasActive, timer, squeezeNet,
    isDown, current, currentSampleCallback,
    trainLogitsMatrix, trainClassLogitsMatrices, classExampleCount, sampleCount,
    measureTimingCounter, lastFrameTimeMs,
    raf,        \* handles of the animation frames requested and not yet run
    gum,        \* getUserMedia promises not yet settled
    requests,   \* getUserMedia calls made so far
    loading,    \* the loadVariables promise is not yet settled
    pending,    \* bag of classification completions not yet run
    trainLogitsOwner,  \* per row of trainLogitsMatrix, the class it was copied from
    raised, dispatched, sampleCalls, confCalls, cleared, paused, scenario,
    measured    \* the latency the last measuring cycle stored

fixed == << isSafari, isMobile, mediaDevices, watch >>
lifecycle == << loaded, active, wasActive, timer, squeezeNet >>
buttons == << isDown, current, currentSampleCallback >>
examples == << trainClassLogitsMatrices, classExampleCount, sampleCount >>
cache == << trainLogitsMatrix, trainLogitsOwner >>
timing == << measureTimingCounter, lastFrameTimeMs >>
loader == << gum, requests, loading >>
observed == << raised, dispatched, sampleCalls, confCalls, cleared, paused, scenario,
              measured >>
vars == << fixed, lifecycle, buttons, examples, cache, timing, raf, loader,
           pending, observed >>

\* What the last handler did besides changing the classifier: whether it threw,
\* and the DOM event it dispatched ("" when none).
Outcome(threw, event) == raised' = threw /\ dispatched' = event

\* The scripted sequence: from no examples, a recording tick for class 0, then
\* deleteClassData(0), a recording tick for class 1, a classification tick on
\* the frame just recorded, and its completion.  scenario.step counts the steps
\* of the script taken so far and scenario.raised tells whether one of them
\* threw.  Handlers that neither record, clear nor classify ("neutral") leave
\* the script where it is; any other handler out of order abandons it.
ScenarioNext(kind, cls, match, threw) ==
    LET step == scenario.step
        expected ==
            \/ step = 0 /\ kind = "record" /\ cls = 0
            \/ step = 1 /\ kind = "delete" /\ cls = 0
            \/ step = 2 /\ kind = "record" /\ cls = 1
            \/ step = 3 /\ kind = "classify" /\ match
            \/ step = 4 /\ kind = "complete"
    IN  IF ~scenario.on \/ kind = "neutral" THEN scenario
        ELSE IF expected
             THEN [on |-> TRUE, step |-> step + 1, raised |-> scenario.raised \/ threw]
             ELSE [on |-> FALSE, step |-> 0, raised |-> FALSE]

\* The state the constructor leaves, on the platform given, keeping the
\* histories named in w.
InitOn(safari, mobile, media, w) ==
    /\ isSafari = safari
    /\ isMobile = mobile
    /\ mediaDevices = media
    /\ watch = w
    /\ loaded = FALSE
    /\ active = FALSE
    /\ wasActive = FALSE
    /\ timer = 0
    /\ squeezeNet = FALSE
    /\ isDown = FALSE
    /\ current = NoClass
    /\ currentSampleCallback = NoClass
    /\ trainLogitsMatrix = NULL
    /\ trainLogitsOwner = NULL
    /\ trainClassLogitsMatrices = [c \in Classes |-> NULL]
    /\ classExampleCount = [c \in Classes |-> 0]
    /\ sampleCount = [c \in Classes |-> 0]
    /\ measureTimingCounter = 0
    /\ lastFrameTimeMs = InitialFrameTimeMs
    /\ raf = {}
    /\ gum = 0
    /\ requests = 0
    /\ loading = FALSE
    /\ pending = EmptyBag
    /\ raised = FALSE
    /\ dispatched = ""
    /\ sampleCalls = << >>
    /\ confCalls = << >>
    /\ cleared = [c \in Classes |-> FALSE]
    /\ paused = FALSE
    /\ scenario = [on |-> TRUE, step |-> 0, raised |-> FALSE]
    /\ measured = InitialFrameTimeMs

\* Any platform.
Init == \E safari \in BOOLEAN, mobile \in BOOLEAN, media \in BOOLEAN :
            InitOn(safari, mobile, media, {})

\* A desktop browser that is not Safari and has a camera API.
InitDesktop(w) == InitOn(FALSE, FALSE, TRUE, w)

\* The continuations outstanding: pending frames and pending completions.
Outstanding == Cardinality(raf) + BagCardinality(pending)

\* requestAnimationFrame returns a handle no pending frame has.
NewHandle(frames) == CHOOSE h \in 1 .. (Cardinality(frames) + 1) : h \notin frames

\* No callback is invoked by the handler.
NoCalls == sampleCalls' = << >> /\ confCalls' = << >>

\* ------------------------------------------------------------- start / stop
\* stopTimer: cancels the frame this.timer names; this.timer keeps the handle.
stopTimer ==
    /\ active' = FALSE
    /\ wasActive' = TRUE
    /\ raf' = raf \ {timer}
    /\ UNCHANGED << loaded, timer, squeezeNet >>

\* startTimer: stops a timer that is set, then requests one frame.
startTimer ==
    LET frames == IF timer # 0 THEN raf \ {timer} ELSE raf
    IN  /\ active' = IF timer # 0 THEN FALSE ELSE active
        /\ wasActive' = TRUE
        /\ timer' = NewHandle(frames)
        /\ raf' = frames \cup {timer'}

\* startTimer may add a continuation; the model caps how many are outstanding.
MayStart(chains) == Outstanding - (IF timer \in raf THEN 1 ELSE 0) < chains

blur ==
    /\ IF timer # 0
       THEN stopTimer
       ELSE UNCHANGED << lifecycle, raf >>
    /\ Outcome(FALSE, "")
    /\ scenario' = ScenarioNext("neutral", NoClass, FALSE, FALSE)
    /\ paused' = IF "paused" \in watch /\ timer # 0 /\ Outstanding > 0 THEN TRUE ELSE paused
    /\ NoCalls
    /\ UNCHANGED << fixed, buttons, examples, cache, timing, loader, pending, cleared, measured >>

focus(chains) ==
    /\ IF wasActive
       THEN /\ MayStart(chains)
            /\ startTimer
            /\ UNCHANGED << loaded, squeezeNet >>
            /\ Outcome(FALSE, "")
       ELSE /\ UNCHANGED << lifecycle, raf >>
            /\ Outcome(FALSE, "")
    /\ scenario' = ScenarioNext("neutral", NoClass, FALSE, FALSE)
    /\ paused' = IF wasActive THEN FALSE ELSE paused
    /\ NoCalls
    /\ UNCHANGED << fixed, buttons, examples, cache, timing, loader, pending, cleared, measured >>

\* ------------------------------------------------------------------ loading
\* ready(): at most chains continuations outstanding and reqs camera requests.
ready(chains, reqs) ==
    /\ IF loaded
       THEN /\ MayStart(chains)
            /\ startTimer
            /\ UNCHANGED << loaded, squeezeNet, gum, requests >>
            /\ Outcome(FALSE, "")
       ELSE IF mediaDevices
       THEN /\ requests < reqs
            /\ gum' = gum + 1
            /\ requests' = requests + 1
            /\ UNCHANGED << lifecycle, raf >>
            /\ Outcome(FALSE, "")
       ELSE /\ UNCHANGED << lifecycle, raf, gum, requests >>
            /\ Outcome(FALSE, "")
    /\ scenario' = ScenarioNext("neutral", NoClass, FALSE, FALSE)
    /\ paused' = IF loaded THEN FALSE ELSE paused
    /\ NoCalls
    /\ UNCHANGED << fixed, buttons, examples, cache, timing, loading, pending, cleared, measured >>

\* The network is created and loaded whether or not one exists.
StartsLoadAlways(net) == TRUE

\* The guard of line 121: the network is created and loaded when none exists.
StartsLoad(net) == ~net

\* getUserMedia resolved: the then-handler of ready().
CameraGranted ==
    /\ gum > 0
    /\ gum' = gum - 1
    /\ active' = TRUE
    /\ squeezeNet' = TRUE
    /\ loading' = IF StartsLoad(squeezeNet) THEN TRUE ELSE loading
    /\ Outcome(FALSE, "webcam-status granted")
    /\ scenario' = ScenarioNext("neutral", NoClass, FALSE, FALSE)
    /\ NoCalls
    /\ UNCHANGED << fixed, loaded, wasActive, timer, raf, buttons, examples, cache,
                    timing, requests, pending, cleared, paused, measured >>

\* What creating the network and starting its load (vendor/squeezenet.js, lines
\* 122-123) can do: the feature extractor's initialization may fail.
SqueezeNetOutcomes == {"created", "threw"}

\* getUserMedia resolved and the then-handler threw where it creates the
\* network and starts loading it (lines 122-123): this.squeezeNet is not
\* assigned, no load is pending, and the catch chained after the then-handler
\* (line 150) handles the exception as it handles a rejected camera request.
ExtractorFailed ==
    /\ gum > 0
    /\ StartsLoad(squeezeNet)
    /\ "threw" \in SqueezeNetOutcomes
    /\ gum' = gum - 1
    /\ active' = TRUE
    /\ Outcome(FALSE, "webcam-status denied")
    /\ scenario' = ScenarioNext("neutral", NoClass, FALSE, FALSE)
    /\ NoCalls
    /\ UNCHANGED << fixed, loaded, wasActive, timer, squeezeNet, raf, buttons, examples,
                    cache, timing, loading, requests, pending, cleared, paused, measured >>

\* getUserMedia rejected: the catch-handler of ready().
CameraRejected ==
    /\ gum > 0
    /\ gum' = gum - 1
    /\ Outcome(FALSE, "webcam-status denied")
    /\ scenario' = ScenarioNext("neutral", NoClass, FALSE, FALSE)
    /\ NoCalls
    /\ UNCHANGED << fixed, lifecycle, raf, buttons, examples, cache, timing, loading,
                    requests, pending, cleared, paused, measured >>

\* loadVariables resolved and the warm-up inference ran.
LoadSucceeded ==
    /\ loading
    /\ loading' = FALSE
    /\ loaded' = TRUE
    /\ startTimer
    /\ UNCHANGED squeezeNet
    /\ Outcome(FALSE, "classifier-loaded")
    /\ scenario' = ScenarioNext("neutral", NoClass, FALSE, FALSE)
    /\ NoCalls
    /\ UNCHANGED << fixed, buttons, examples, cache, timing, gum, requests, pending,
                    cleared, measured >>
    /\ paused' = FALSE

\* loadVariables rejected, or the warm-up threw: the promise of line 123 has no
\* rejection handler, so nothing of the classifier changes.
LoadFailed ==
    /\ loading
    /\ loading' = FALSE
    /\ Outcome(TRUE, "")
    /\ scenario' = ScenarioNext("neutral", NoClass, FALSE, FALSE)
    /\ NoCalls
    /\ UNCHANGED << fixed, lifecycle, raf, buttons, examples, cache, timing, gum, requests,
                    pending, cleared, paused, measured >>

\* ------------------------------------------------------------------ buttons
\* buttonDown(id): this.classes[id] is undefined for an id that is no class
\* name, and reading its classObj then throws, after current and isDown are set.
buttonDown(id) ==
    /\ current' = IF id \in Classes THEN id ELSE Undefined
    /\ isDown' = TRUE
    /\ currentSampleCallback' = IF id \in Classes THEN id ELSE currentSampleCallback
    /\ Outcome(id \notin Classes, "")
    /\ scenario' = ScenarioNext("neutral", NoClass, FALSE, FALSE)
    /\ NoCalls
    /\ UNCHANGED << fixed, lifecycle, examples, cache, timing, raf, loader, pending,
                    cleared, paused, measured >>

buttonUp ==
    /\ isDown' = FALSE
    /\ current' = NoClass
    /\ currentSampleCallback' = NoClass
    /\ Outcome(FALSE, "")
    /\ scenario' = ScenarioNext("neutral", NoClass, FALSE, FALSE)
    /\ NoCalls
    /\ UNCHANGED << fixed, lifecycle, examples, cache, timing, raf, loader, pending,
                    cleared, paused, measured >>

\* ----------------------------------------------------------------- examples
getNumExamples == SumTo(classExampleCount, CLASS_COUNT)

\* deleteClassData(index).  Line 94 dereferences trainLogitsMatrix, which is
\* null whenever no classification tick has rebuilt it since the last recording
\* tick: the handler then throws with the class matrix already set to null and
\* the counts not yet reset.
HasDataAlways(index) == TRUE

\* The guard of line 91.
HasData(index) == trainClassLogitsMatrices[index] # NULL

deleteClassData(index) ==
    /\ IF HasData(index)
       THEN /\ trainClassLogitsMatrices' = [trainClassLogitsMatrices EXCEPT ![index] = NULL]
            /\ cleared' = [cleared EXCEPT ![index] = "cleared" \in watch]
            /\ IF trainLogitsMatrix = NULL
               THEN /\ UNCHANGED << classExampleCount, sampleCount, cache >>
                    /\ Outcome(TRUE, "")
                    /\ scenario' = ScenarioNext("delete", index, FALSE, TRUE)
               ELSE /\ trainLogitsMatrix' = NULL
                    /\ trainLogitsOwner' = NULL
                    /\ classExampleCount' = [classExampleCount EXCEPT ![index] = 0]
                    /\ sampleCount' = [sampleCount EXCEPT ![index] = 0]
                    /\ Outcome(FALSE, "")
                    /\ scenario' = ScenarioNext("delete", index, FALSE, FALSE)
       ELSE /\ UNCHANGED << examples, cache, cleared >>
            /\ Outcome(FALSE, "")
            /\ scenario' = ScenarioNext("neutral", index, FALSE, FALSE)
    /\ NoCalls
    /\ UNCHANGED << fixed, lifecycle, buttons, timing, raf, loader, pending, paused,
                    measured >>

\* ---------------------------------------------------------- recording tick
\* as3D(rows, INPUT_SIZE, 1) and as2D(rows, 1000) reshape a matrix and throw
\* unless it holds exactly that many rows.
Reshapes(matrix, rows) == Len(matrix) = rows

\* saveTrainingLogits can append: a class is selected and its matrix reshapes
\* to its example count.
CanSave ==
    /\ current \in Classes
    /\ \/ trainClassLogitsMatrices[current] = NULL
       \/ Reshapes(trainClassLogitsMatrices[current], classExampleCount[current])

\* The cached matrix survives the recording of an example.
StaleCache(matrix) == matrix

\* saveTrainingLogits first disposes of the cached matrix and sets it to null.
Invalidated(matrix) == NULL

\* The cache is disposed of before the selected class is read.
DisposedFirst(matrix) == Invalidated(matrix)

\* The cache after the recording tick: line 247 reads this.current.index
\* before it calls saveTrainingLogits, and throws with no class selected.
Disposed(matrix) == IF current \in Classes THEN Invalidated(matrix) ELSE matrix

\* The branch of animate taken while the button is down, on the frame showing
\* the scene raw.
AnimateRecord(h, raw, cap) ==
    LET logits == captureFrameSqueezeNetLogits(raw)
        ok == CanSave /\ currentSampleCallback \in Classes
    IN  /\ isDown
        /\ CanSave => getNumExamples < cap
        /\ trainLogitsMatrix' = Disposed(trainLogitsMatrix)
        /\ trainLogitsOwner' = Disposed(trainLogitsOwner)
        /\ IF CanSave
           THEN /\ trainClassLogitsMatrices' =
                     [trainClassLogitsMatrices EXCEPT
                          ![current] = concat(@, << logits >>)]
                /\ classExampleCount' = [classExampleCount EXCEPT ![current] = @ + 1]
                /\ sampleCount' = [sampleCount EXCEPT ![current] = @ + 1]
                /\ cleared' = [cleared EXCEPT ![current] = FALSE]
           ELSE UNCHANGED << examples, cleared >>
        /\ IF ok
           THEN /\ sampleCalls' = << [class |-> currentSampleCallback,
                                      count |-> sampleCount'[current]] >>
                /\ timer' = NewHandle(raf \ {h})
                /\ raf' = (raf \ {h}) \cup {timer'}
           ELSE /\ sampleCalls' = << >>
                /\ timer' = timer
                /\ raf' = raf \ {h}
        /\ confCalls' = << >>
        /\ Outcome(~ok, "")
        /\ scenario' = ScenarioNext("record", current, FALSE, ~ok)
        /\ UNCHANGED << fixed, loaded, active, wasActive, squeezeNet, buttons, timing,
                        loader, pending, paused, measured >>

\* ------------------------------------------------------ classification tick
RECURSIVE concatAll(_, _)
\* The loop of lines 267-269 from class index on.
concatAll(matrices, index) ==
    IF index = CLASS_COUNT THEN NULL
    ELSE concat(matrices[index], concatAll(matrices, index + 1))

\* The class each row of the rebuilt matrix was copied from.
OwnersOf(matrices) ==
    concatAll([c \in Classes |-> [i \in 1 .. Len(matrices[c]) |-> c]], 0)

\* The readback is awaited on every cycle.
AwaitsReadbackAlways(measureTimer) == TRUE

\* The readback is awaited, rather than replaced by a fixed delay (line 302).
AwaitsReadback(measureTimer) == ~isSafari \/ measureTimer \/ ~isMobile

\* The branch of animate taken with the button up and examples stored, on the
\* frame showing the scene raw.  The matrix is rebuilt when the cache is null;
\* clone(null) throws when every class matrix is null, and as2D throws when the
\* matrix does not hold numExamples rows (the rebuilt cache is kept).
AnimateClassify(h, raw, cycles) ==
    LET numExamples == getNumExamples
        measureTimer == measureTimingCounter = 0
        frameLogits == captureFrameSqueezeNetLogits(raw)
        rebuilt == trainLogitsMatrix = NULL
        matrix == IF rebuilt THEN concatAll(trainClassLogitsMatrices, 0)
                  ELSE trainLogitsMatrix
        owner == IF rebuilt THEN OwnersOf(trainClassLogitsMatrices)
                 ELSE trainLogitsOwner
        ok == matrix # NULL /\ Reshapes(matrix, numExamples)
        knn == [i \in 1 .. Len(matrix) |-> Dot(matrix[i], frameLogits)]
        match == /\ trainClassLogitsMatrices[1] # NULL
                 /\ frameLogits = trainClassLogitsMatrices[1][1]
    IN  /\ ~isDown
        /\ numExamples > 0
        /\ measureTimingCounter < cycles
        /\ trainLogitsMatrix' = matrix
        /\ trainLogitsOwner' = owner
        /\ raf' = raf \ {h}
        /\ IF ok
           THEN pending' = pending (+) SetToBag({
                    [kind |-> IF AwaitsReadback(measureTimer) THEN "readback" ELSE "timeout",
                     delay |-> IF AwaitsReadback(measureTimer) THEN 0 ELSE lastFrameTimeMs,
                     measure |-> measureTimer,
                     numExamples |-> numExamples,
                     knn |-> knn,
                     owner |-> owner,
                     counts |-> classExampleCount] })
           ELSE pending' = pending
        /\ Outcome(~ok, "")
        /\ scenario' = ScenarioNext("classify", NoClass, match, ~ok)
        /\ NoCalls
        /\ UNCHANGED << fixed, lifecycle, buttons, examples, timing, loader, cleared, paused, measured >>

\* The branch of animate taken with the button up and no example stored.
AnimateIdle(h) ==
    /\ ~isDown
    /\ getNumExamples = 0
    /\ timer' = NewHandle(raf \ {h})
    /\ raf' = (raf \ {h}) \cup {timer'}
    /\ Outcome(FALSE, "")
    /\ scenario' = ScenarioNext("neutral", NoClass, FALSE, FALSE)
    /\ NoCalls
    /\ UNCHANGED << fixed, loaded, active, wasActive, squeezeNet, buttons, examples,
                    cache, timing, loader, pending, cleared, paused, measured >>

\* --------------------------------------------------------------- completion
\* getClassFromIndex, from class ind on with prevSum examples before it; it
\* reads the example counts as they are when it is called.
RECURSIVE getClassFromIndexFrom(_, _, _)
getClassFromIndexFrom(index, ind, prevSum) ==
    IF ind = CLASS_COUNT THEN 2
    ELSE IF index < classExampleCount[ind] + prevSum THEN ind
    ELSE getClassFromIndexFrom(index, ind + 1, prevSum + classExampleCount[ind])

getClassFromIndex(index) == getClassFromIndexFrom(index, 0, 0)

\* kVal without the cap TOPK.
KValUncapped(numExamples) == numExamples

\* kVal of computeConfidences.
KVal(numExamples) == Min(TOPK, numExamples)

RECURSIVE Choose(_, _)
\* The subsets of S with k elements.
Choose(S, k) ==
    IF k = 0 THEN {{}}
    ELSE IF Cardinality(S) < k THEN {}
    ELSE LET x == CHOOSE y \in S : TRUE
         IN  { T \cup {x} : T \in Choose(S \ {x}, k - 1) } \cup Choose(S \ {x}, k)

\* mathCPU.topK(knn, k): the (0-based) index sets of k largest values: every
\* index above the k-th largest value, and enough of those equal to it.  The
\* order among equal values is the sort's, which the language leaves open.
TopK(knn, k) ==
    LET all == 0 .. (Len(knn) - 1)
        Above(v) == { i \in all : knn[i + 1] > v }
        Equal(v) == { i \in all : knn[i + 1] = v }
        kth == { knn[i + 1] : i \in { j \in all :
                     /\ Cardinality(Above(knn[j + 1])) < k
                     /\ k <= Cardinality(Above(knn[j + 1])) + Cardinality(Equal(knn[j + 1])) } }
    IN  UNION { { Above(v) \cup T : T \in Choose(Equal(v), k - Cardinality(Above(v))) } :
                v \in kth }

RECURSIVE Indices(_)
\* The selected indices as the array the loop of line 285 walks.
Indices(S) ==
    IF S = {} THEN << >>
    ELSE LET i == CHOOSE x \in S : \A y \in S : x <= y
         IN  << i >> \o Indices(S \ {i})

RECURSIVE classTopKMap(_)
\* The loop of lines 284-287.
classTopKMap(indices) ==
    IF indices = << >> THEN [c \in Classes |-> 0]
    ELSE [classTopKMap(Tail(indices)) EXCEPT ![getClassFromIndex(Head(indices))] = @ + 1]

\* The confidences of lines 289-293: entry c is the quotient map[c] / kVal,
\* kept as the pair of its numerator and denominator.
Confidences(map, kVal) == [c \in Classes |-> << map[c], kVal >>]

\* performance.now() - start: the latencies a readback is measured to take.
FrameTimes == {16}

\* The same where the latency varies from one readback to the next.
Latencies == {16, 33}

\* The completion of a classification: the readback's then-handler (which
\* stores the measured latency) or the timeout, then computeConfidences.
\* confCalls holds the call of setConfidences: its argument and, to judge it,
\* the examples counted when the tick started (numExamples, counts) and now
\* (countsNow), how many rows were selected, how many of them
\* getClassFromIndex gave to each class (tally), the selected rows it gave
\* to another class than the one they were copied from (misattributed), how
\* many selected indices are not below the sum of the counts (fallbacks), and
\* how the cycle completed (kind, delay, measure).
ComputeConfidences(p, times) ==
    LET kVal == KVal(p.numExamples)
    IN  /\ BagIn(p, pending)
        /\ pending' = pending (-) SetToBag({p})
        /\ IF p.kind = "readback"
           THEN lastFrameTimeMs' \in times
           ELSE lastFrameTimeMs' = lastFrameTimeMs
        /\ \E S \in TopK(p.knn, kVal) :
              confCalls' = << [confidences |-> Confidences(classTopKMap(Indices(S)), kVal),
                               numExamples |-> p.numExamples,
                               selected |-> Cardinality(S),
                               tally |-> [c \in Classes |->
                                   Cardinality({ i \in S : getClassFromIndex(i) = c })],
                               misattributed |->
                                   { i \in S : getClassFromIndex(i) # p.owner[i + 1] },
                               fallbacks |-> Cardinality({ i \in S : i >= getNumExamples }),
                               kind |-> p.kind,
                               delay |-> p.delay,
                               measure |-> p.measure,
                               counts |-> p.counts,
                               countsNow |-> classExampleCount] >>
        /\ sampleCalls' = << >>
        /\ measureTimingCounter' = (measureTimingCounter + 1) % MEASURE_TIMING_EVERY_NUM_FRAMES
        /\ timer' = NewHandle(raf)
        /\ raf' = raf \cup {timer'}
        /\ Outcome(FALSE, "")
        /\ scenario' = ScenarioNext("complete", NoClass, FALSE, FALSE)
        /\ measured' = IF "measured" \in watch /\ p.measure
                       THEN lastFrameTimeMs' ELSE measured
        /\ UNCHANGED << fixed, loaded, active, wasActive, squeezeNet, buttons, examples,
                        cache, loader, cleared, paused >>

\* ------------------------------------------------------------ specifications
\* One step of the program other than deleteClassData, with a camera showing n
\* scenes, buttons for the ids given, at most cap stored examples,
\* classification ticks while the timing counter is below cycles, and at most
\* chains continuations outstanding, at most reqs camera requests, and
\* readbacks measured to take one of the latencies times.
Loop(n, ids, cap, cycles, chains, reqs, times) ==
    \/ ready(chains, reqs)
    \/ CameraGranted
    \/ ExtractorFailed
    \/ CameraRejected
    \/ LoadSucceeded
    \/ LoadFailed
    \/ blur
    \/ focus(chains)
    \/ \E id \in ids : buttonDown(id)
    \/ buttonUp
    \/ \E h \in raf : \E raw \in Scenes(n) : AnimateRecord(h, raw, cap)
    \/ \E h \in raf : \E raw \in Scenes(n) : AnimateClassify(h, raw, cycles)
    \/ \E h \in raf : AnimateIdle(h)
    \/ \E p \in BagToSet(pending) : ComputeConfidences(p, times)

\* The ids buttonDown is called with: every class name, and one that is none.
Ids == Classes \cup {BadId}

Clear == \E index \in Classes : deleteClassData(index)

Next == Loop(NumFrames, Ids, MaxExamples, MaxCycles, MaxChains, MaxReady, FrameTimes) \/ Clear

Spec == InitDesktop({}) /\ [][Next]_vars

\* The same, keeping the history of the classes cleared.
SpecClear == InitDesktop({"cleared"}) /\ [][Next]_vars

\* Recording and classification only, on a camera showing one still scene:
\* deleteClassData is never called.
NextRecord == Loop(1, Ids, MaxExamples, MaxCycles, MaxChains, MaxReady, FrameTimes)

SpecRecord == InitDesktop({}) /\ [][NextRecord]_vars

\* The classes trained in front of the still camera.
StillIds == {0, 2}

\* A camera showing one still scene, with room for more than TOPK examples, and
\* a single loop.
NextStill == Loop(1, StillIds, MaxStill, MaxStillCycles, 1, MaxReady, FrameTimes) \/ Clear

SpecStill == InitDesktop({}) /\ [][NextStill]_vars

\* The class trained where the loops are studied.
FocusIds == {0}

\* Any platform, a still scene, and focus() and ready() free to start a loop
\* while another is outstanding; the history of blur() is kept.
NextFocus == Loop(1, FocusIds, MaxFocus, MaxCycles, MaxLoops, MaxReady, FrameTimes) \/ Clear

SpecFocus ==
    /\ \E safari \in BOOLEAN, mobile \in BOOLEAN, media \in BOOLEAN :
           InitOn(safari, mobile, media, {"paused"})
    /\ [][NextFocus]_vars

\* Several ready() calls before the network is loaded, on any platform, with
\* one class trained on a still scene; deleteClassData is never called.
NextLoad == Loop(1, FocusIds, MaxFocus, MaxStillCycles, MaxChains, MaxRequests, FrameTimes)

SpecLoad == Init /\ [][NextLoad]_vars

\* A single loop running through whole rounds of the timing counter, on any
\* platform with a camera API, with readbacks of varying latency; the latency
\* of the last measuring cycle is kept.
NextTiming ==
    Loop(1, FocusIds, MaxFocus, MEASURE_TIMING_EVERY_NUM_FRAMES, 1, MaxReady, Latencies)

SpecTiming ==
    /\ \E safari \in BOOLEAN, mobile \in BOOLEAN :
           InitOn(safari, mobile, TRUE, {"measured"})
    /\ [][NextTiming]_vars

\* Two classes trained on a still scene and cleared, with few examples; the
\* history of the classes cleared is kept.
NextFew == Loop(1, StillIds, MaxFew, MaxStillCycles, MaxChains, MaxReady, FrameTimes) \/ Clear

SpecFew == InitDesktop({"cleared"}) /\ [][NextFew]_vars

\* The ids where a slip of the caller is studied: a class name and one that is
\* none.
SlipIds == {0, BadId}

\* One class trained on a still scene and cleared, with few examples, and
\* buttonDown called with an id that is no class name.
NextSlip == Loop(1, SlipIds, MaxFew, MaxStillCycles, MaxChains, MaxReady, FrameTimes) \/ Clear

SpecSlip == InitDesktop({}) /\ [][NextSlip]_vars

\* ------------------------------------------------------------------- claims
\* The call of setConfidences made by the last handler, when it made one.
Called == confCalls # << >>
Call == confCalls[1]

\* C1: deleteClassData(i) on a class with at least one stored example does not
\* throw and leaves the class matrix null, the class's example count and
\* sampleCount 0 and the cached matrix null.
C1_DeleteClears ==
    [][\A i \in Classes :
          (trainClassLogitsMatrices[i] # NULL /\ deleteClassData(i)) =>
              /\ ~raised'
              /\ trainClassLogitsMatrices'[i] = NULL
              /\ classExampleCount'[i] = 0
              /\ sampleCount'[i] = 0
              /\ trainLogitsMatrix' = NULL]_vars

\* C2: the scripted sequence (record for class 0, clear class 0, record for
\* class 1, classify the frame recorded for class 1) runs without any of its
\* handlers throwing and ends with setConfidences called with confidence 1/1
\* for class 1 and 0 for class 0.
C2_Scenario ==
    /\ scenario.step >= 1 => ~scenario.raised
    /\ (scenario.step = 5 /\ Called) =>
           /\ Call.confidences[1] = << 1, 1 >>
           /\ Call.confidences[0][1] = 0

\* C3: a confidence vector passed to setConfidences after deleteClassData(c)
\* and before a new example of c is recorded has confidence 0 for c, when
\* another class has examples.
C3_ClearedClassGetsZero ==
    \A c \in Classes :
        (/\ Called
         /\ cleared[c]
         /\ \E d \in Classes \ {c} : classExampleCount[d] > 0)
        => Call.confidences[c][1] = 0

\* C4: every selected row is attributed to the class it was copied from when
\* the matrix was built, and the example counts computeConfidences reads are
\* those of the tick that started the classification.
C4_AttributionMatchesBuild ==
    Called => (Call.misattributed = {} /\ Call.countsNow = Call.counts)

\* C5: without deleteClassData, getNumExamples() is the sum of the per-class
\* counts, a cached matrix that is not null has getNumExamples() rows, and a
\* recording tick (the handler that calls a sampleCallback) leaves the cache
\* null.
C5_CacheRowsMatchTotal ==
    /\ getNumExamples = classExampleCount[0] + classExampleCount[1] + classExampleCount[2]
    /\ trainLogitsMatrix # NULL => Len(trainLogitsMatrix) = getNumExamples
    /\ sampleCalls # << >> => trainLogitsMatrix = NULL

\* A cache of three rows rebuilt from two classes.
C5_Witness ==
    /\ Len(trainLogitsMatrix) = 3
    /\ classExampleCount[0] > 0
    /\ classExampleCount[1] > 0

\* C6: a tick with the button up and no example stored only requests one
\* frame, and setConfidences is never called while no example is stored.
C6_NoCallWithoutExamples ==
    [][/\ \A h \in raf :
            (~isDown /\ getNumExamples = 0 /\ AnimateIdle(h)) =>
                /\ confCalls' = << >>
                /\ Cardinality(raf') = Cardinality(raf)
                /\ UNCHANGED << examples, cache >>
       /\ confCalls' # << >> => getNumExamples' > 0]_vars

\* C7: the vector passed to setConfidences has CLASS_COUNT entries; with K the
\* smaller of TOPK and the examples counted when the tick started, entry i is
\* (selected rows attributed to class i) / K, lies in [0, 1], and the entries
\* sum to at most 1.
C7_ConfidencesAreVotesOverK ==
    Called =>
        LET k == Min(TOPK, SumTo(Call.counts, CLASS_COUNT))
            conf == Call.confidences
        IN  /\ DOMAIN conf = 0 .. (CLASS_COUNT - 1)
            /\ CLASS_COUNT = 3
            /\ k > 0
            /\ \A i \in DOMAIN conf :
                   /\ conf[i] = << Call.tally[i], k >>
                   /\ 0 <= conf[i][1]
                   /\ conf[i][1] <= conf[i][2]
            /\ SumTo([i \in DOMAIN conf |-> conf[i][1]], CLASS_COUNT) <= k

\* More examples than TOPK, and votes for two classes.
C7_Witness ==
    /\ Called
    /\ SumTo(Call.counts, CLASS_COUNT) > TOPK
    /\ Call.confidences[0][1] > 0
    /\ Call.confidences[2][1] > 0

\* C8: a tick with the button down and class c selected appends one example to
\* c, leaves the other classes alone, leaves the cache null, does not call
\* setConfidences, does not throw and requests exactly one frame.
C8_RecordingTick ==
    [][\A h \in raf : \A raw \in Scenes(NumFrames) :
          (isDown /\ current \in Classes /\ AnimateRecord(h, raw, MaxExamples)) =>
              /\ ~raised'
              /\ classExampleCount' =
                     [classExampleCount EXCEPT ![current] = @ + 1]
              /\ Len(trainClassLogitsMatrices'[current]) =
                     Len(trainClassLogitsMatrices[current]) + 1
              /\ \A c \in Classes \ {current} :
                     trainClassLogitsMatrices'[c] = trainClassLogitsMatrices[c]
              /\ trainLogitsMatrix' = NULL
              /\ confCalls' = << >>
              /\ Cardinality(raf') = Cardinality(raf)]_vars

\* C9: between a blur() of the running loop and the next focus() or ready(),
\* no tick is pending or runs and no callback is called; focus() leaves isDown
\* and the selected class as they were.
C9_BlurPauses ==
    [][/\ paused' => (raf' = {} /\ confCalls' = << >> /\ sampleCalls' = << >>)
       /\ focus(MaxLoops) => UNCHANGED << isDown, current >>]_vars

\* C10: at most one continuation (pending frame or pending completion) is
\* outstanding.
C10_OneContinuation == Outstanding <= 1

\* C11: focus(), or ready() on the loaded classifier, called while a frame is
\* pending leaves active, wasActive and the number of pending frames as they
\* were and does not throw; blur() called while nothing is outstanding and the
\* classifier is not active leaves the classifier and its continuations as
\* they were and does not throw.
C11_StartStopIdempotent ==
    [][/\ (/\ timer \in raf
            /\ \/ focus(MaxChains)
               \/ loaded /\ ready(MaxChains, MaxReady))
           => /\ UNCHANGED << active, wasActive >>
              /\ Cardinality(raf') = Cardinality(raf)
              /\ ~raised'
       /\ (Outstanding = 0 /\ ~active /\ blur)
           => /\ UNCHANGED << lifecycle, raf, pending >>
              /\ ~raised']_vars

\* C12: a rejected camera request dispatches webcam-status with granted =
\* false and changes nothing of the classifier; while no request was granted
\* the classifier is idle (not loaded, no load pending, no frame or completion
\* pending, wasActive false so that focus() starts nothing); and webcam-status
\* with granted = false is dispatched only by the rejection of a camera
\* request.
C12_RejectionStaysIdle ==
    [][/\ CameraRejected =>
              /\ dispatched' = "webcam-status denied"
              /\ UNCHANGED << lifecycle, raf, loading, pending >>
       /\ (~squeezeNet /\ ~active) =>
              /\ ~loaded /\ ~loading /\ ~wasActive
              /\ timer = 0 /\ raf = {} /\ pending = EmptyBag
       /\ dispatched' = "webcam-status denied" => CameraRejected]_vars

\* C13: when loadVariables or the warm-up fails, the classifier is not loaded,
\* no frame is requested, and an event is dispatched that is none of
\* classifier-loaded, webcam-status granted and webcam-status denied.
C13_LoadFailureSurfaces ==
    [][LoadFailed =>
           /\ ~loaded'
           /\ raf' = {}
           /\ dispatched' \notin {"", "classifier-loaded", "webcam-status granted",
                                   "webcam-status denied"}]_vars

\* C14: a tick with the button down and no class selected throws, calls no
\* sampleCallback, and leaves every class's matrix and counts and the cached
\* matrix as they were.
C14_RecordWithoutClassFails ==
    [][(isDown /\ current \notin Classes) =>
          \A h \in raf : \A raw \in Scenes(1) :
              AnimateRecord(h, raw, MaxFew) =>
                  /\ raised'
                  /\ sampleCalls' = << >>
                  /\ UNCHANGED << examples, trainLogitsMatrix >>]_vars

\* A tick has thrown with no class selected while a cached matrix exists: no
\* continuation is left although the loop was never stopped, and every class
\* matrix still has as many rows as the class has examples.
C14_Witness ==
    /\ raised /\ isDown /\ current = Undefined
    /\ loaded /\ active /\ Outstanding = 0
    /\ trainLogitsMatrix # NULL
    /\ \A c \in Classes : Len(trainClassLogitsMatrices[c]) = classExampleCount[c]

\* C15: deleteClassData(i) on a class without stored examples does not throw
\* and leaves the examples, the counts, the cached matrix, the loop and the
\* buttons as they were; and after any deleteClassData(i) class i has no
\* stored examples, so that a second call in a row is such a call.
C15_DeleteEmptyIsNoOp ==
    [][\A i \in Classes :
          /\ (/\ trainClassLogitsMatrices[i] = NULL \/ classExampleCount[i] = 0
              /\ deleteClassData(i))
             => /\ ~raised'
                /\ UNCHANGED << examples, cache, lifecycle, raf, pending, timing, buttons >>
          /\ deleteClassData(i) => trainClassLogitsMatrices'[i] = NULL]_vars

\* A class that was cleared and has no examples, while the cached matrix has
\* been rebuilt from another class and a frame is pending.
C15_Witness ==
    \E i \in Classes :
        /\ cleared[i]
        /\ trainClassLogitsMatrices[i] = NULL /\ classExampleCount[i] = 0
        /\ trainLogitsMatrix # NULL
        /\ raf # {}
        /\ ~raised

\* C16: while the classifier is loaded and the loop has not been stopped, a
\* frame or a completion is outstanding (the loop has not stalled).
C16_LoopNeverStalls == (loaded /\ active) => Outstanding > 0

\* C17: every index computeConfidences passes to getClassFromIndex is below
\* the sum of the example counts at that moment (the fall-back is not taken).
C17_FallbackNeverTaken == Called => Call.fallbacks = 0

\* C18: classifier-loaded is dispatched only by a step that sets loaded, with
\* the network created by a granted camera request; loaded is never reset, so
\* the event is dispatched at most once; and while loaded is false no frame
\* or completion is pending and no callback is called.
C18_LoadedOnce ==
    [][/\ dispatched' = "classifier-loaded" => (~loaded /\ loaded' /\ squeezeNet)
       /\ loaded => loaded'
       /\ ~loaded' => /\ raf' = {} /\ pending' = EmptyBag
                      /\ sampleCalls' = << >> /\ confCalls' = << >>]_vars

\* classifier-loaded has just been dispatched after two ready() calls.
C18_Witness ==
    /\ dispatched = "classifier-loaded"
    /\ loaded
    /\ requests >= 2

\* C19: a completed classification advances measureTimingCounter by 1 modulo
\* 20, and its cycle was a measuring one exactly when the counter was 0.  On
\* Safari on a mobile device a cycle awaits the readback exactly when it is a
\* measuring one, and any other cycle completes by a timeout whose delay is
\* the latency the last measuring cycle stored (1000 before any) and leaves
\* lastFrameTimeMs alone; on any other platform every cycle awaits the
\* readback.
C19_TimingPolicy ==
    [][confCalls' # << >> =>
          LET c == confCalls'[1]
          IN  /\ measureTimingCounter' = (measureTimingCounter + 1) % 20
              /\ c.measure = (measureTimingCounter = 0)
              /\ IF isSafari /\ isMobile
                 THEN /\ (c.kind = "readback") = c.measure
                      /\ c.kind = "timeout" =>
                             /\ c.delay = measured
                             /\ lastFrameTimeMs' = lastFrameTimeMs
                      /\ c.kind = "readback" => measured' = lastFrameTimeMs'
                 ELSE c.kind = "readback"]_vars

\* On Safari on a mobile device, the twentieth cycle of a round has completed
\* by a timeout of 33 ms, the latency its measuring cycle stored.
C19_Witness ==
    /\ isSafari /\ isMobile
    /\ Called
    /\ Call.kind = "timeout"
    /\ Call.delay = 33
    /\ measureTimingCounter = 0

\* C20: for every class the matrix is null exactly when the example count is
\* 0 and has as many rows as the count, sampleCount equals the count, and a
\* sampleCallback is called with the count of its class.
C20_CountsMatchRows ==
    /\ \A i \in Classes :
           /\ (trainClassLogitsMatrices[i] = NULL) <=> (classExampleCount[i] = 0)
           /\ Len(trainClassLogitsMatrices[i]) = classExampleCount[i]
           /\ sampleCount[i] = classExampleCount[i]
    /\ sampleCalls # << >> =>
           sampleCalls[1].count = classExampleCount[sampleCalls[1].class]

====
